---- MODULE Spec2Model ----
(***************************************************************************)
(* UTXO organisms (ORG1 protocol): the Organism covenant                   *)
(* (src/contracts/organism.ts), the spawn / claim / fund transaction       *)
(* builders (spawn.cjs, claim.cjs, fund.cjs) and the single-spend ledger   *)
(* they broadcast to.  One lineage is modelled: the ledger is the chain of *)
(* accepted transactions, each spending output 0 of its predecessor.       *)
(***************************************************************************)
EXTENDS Integers, Sequences, FiniteSets, TLC

VARIABLES
    ledger,         \* accepted transactions of the lineage, oldest first
    result,         \* outcome of the last operation that was run
    reproductions,  \* number of accepted spends of an organism output
    broadcasts,     \* what the last operation handed to wocBroadcast
    codec,          \* the last call of decodeORG1: its input and its value
    lineageFile,    \* lineage/<spawnTxid>.json: the persisted trace
    walk,           \* outcome of the last call of traceLineage
    race            \* invocations that run side by side: where each stands

vars == <<ledger, result, reproductions, broadcasts, codec, lineageFile,
          walk, race>>

\* what the command-line builders and the ledger work on
chainVars == <<ledger, result, reproductions, broadcasts, race>>

\* what the scanner works on
scannerVars == <<codec, lineageFile, walk>>

-----------------------------------------------------------------------------
(* Bounds of the exploration *)

MaxGen == 2             \* no reproduction is attempted from this generation on

(* Program constants *)

DUST_LIMIT == 546       \* spawn.cjs: const DUST_LIMIT = 546
SPAWN_FEE == 3000       \* spawn.cjs: const SPAWN_FEE = 3000
FUND_DUST == 546        \* fund.cjs: hasChange = changeForContract > 546

(* Inputs *)

Types == {0, 200}
Budgets == {600, 2000, 4000, 4200, 4600, 8000, 50000, 100000}
Rewards == {0, 1000}
Fees == {0, 3000}
Pkhs == {"pkhA", "pkhB"}
Addresses == Pkhs \cup {"bad"}
FunderPkh == "pkhF"
Amounts == {-100, 0, 20000}
FundFees == {3000}
SpawnExtras == {-1, 0, 547}
FundFunds == {0, 3100, 23000, 30000}

-----------------------------------------------------------------------------
(* Byte strings *)

Zeros(n) == [i \in 1..n |-> 0]

\* toByteString('00..00'), Buffer.alloc(32, 0)
zeroTxid == Zeros(32)

\* the identifier the ledger gives the n-th transaction of the lineage
TxidOf(n) == [i \in 1..32 |-> n]

\* "ORG1" = 4f524731
ORG1 == <<79, 82, 71, 49>>

\* little-endian bytes of a non-negative integer, size bytes, truncated
LEBytes(n, size) == [i \in 1..size |-> (n \div (256 ^ (i - 1))) % 256]

\* sCrypt num2bin: sign-magnitude little-endian, the top bit is the sign, so
\* a non-negative n fits in size bytes iff n < 2^(8*size - 1)
Int2ByteStringFits(n, size) == n >= 0 /\ n \div (256 ^ (size - 1)) < 128

Int2ByteString(n, size) == LEBytes(n, size)

\* Buffer.writeUInt8 / writeUInt32LE
WriteUInt8(n) == LEBytes(n, 1)

WriteUInt32LE(n) == LEBytes(n, 4)

\* bsv.Script.buildSafeDataOut: OP_FALSE OP_RETURN, then one push per buffer
RECURSIVE Pushes(_)
Pushes(bufs) ==
    IF bufs = <<>> THEN <<>>
    ELSE <<Len(Head(bufs))>> \o Head(bufs) \o Pushes(Tail(bufs))

BuildSafeDataOut(bufs) == <<0, 106>> \o Pushes(bufs)

-----------------------------------------------------------------------------
(* Transaction outputs *)

\* the output carries the value less the dust limit
StateOutputLessDust(script, value) ==
    [kind |-> "state", script |-> script, value |-> value - script.dustLimit]

\* an output locked by the Organism covenant carrying the given properties
StateOutput(script, value) ==
    [kind |-> "state", script |-> script, value |-> value]

\* Utils.buildOutput(opReturnScript, 0n)
DataOutput(bytes) == [kind |-> "data", bytes |-> bytes, value |-> 0]

\* Utils.buildPublicKeyHashOutput(pkh, value)
P2pkhOutput(pkh, value) == [kind |-> "p2pkh", pkh |-> pkh, value |-> value]

NoOutput == [kind |-> "none", value |-> 0]

RECURSIVE SumValues(_)
SumValues(outs) ==
    IF outs = <<>> THEN 0 ELSE Head(outs).value + SumValues(Tail(outs))

\* new Organism(type, reward, fee, dustLimit, spawnTxid, generation)
Organism(type, reward, fee, dust, spawn, gen) ==
    [organismType |-> type, reward |-> reward, fee |-> fee,
     dustLimit |-> dust, spawnTxid |-> spawn, generation |-> gen]

-----------------------------------------------------------------------------
(* The covenant: Organism.claim, the only public method of the contract *)

PublicMethods == {"claim"}

\* the fee is not deducted
CovenantNextBalanceNoFee(this, currentBalance) == currentBalance - this.reward

\* const nextBalance = currentBalance - this.reward - this.fee
CovenantNextBalance(this, currentBalance) ==
    currentBalance - this.reward - this.fee

\* alive is decided against zero instead of the dust limit
CovenantAliveAboveZero(this, currentBalance) ==
    currentBalance - this.reward - this.fee >= 0

\* const alive = nextBalance >= this.dustLimit
CovenantAlive(this, currentBalance) ==
    CovenantNextBalance(this, currentBalance) >= this.dustLimit

\* the generation is not incremented
CovenantNextInstanceSameGen(this) == this

\* this.generation++
CovenantNextInstance(this) == [this EXCEPT !.generation = this.generation + 1]

\* this.buildStateOutput(nextBalance): same script, stateful props as they
\* are now (generation already incremented)
BuildStateOutput(this, value) == StateOutput(this, value)

\* OP_FALSE OP_RETURN <4:"ORG1"> <1:type> <4:generation LE> <32:spawnTxid>
CovenantOpReturnScript(this) ==
    <<0, 106>> \o <<4>> \o ORG1
        \o <<1>> \o Int2ByteString(this.organismType, 1)
        \o <<4>> \o Int2ByteString(this.generation, 4)
        \o <<32>> \o this.spawnTxid

\* the outputs string the method hashes
CovenantOutputs(this, currentBalance, claimerPkh) ==
    LET next == CovenantNextInstance(this)
        nextBalance == CovenantNextBalance(this, currentBalance)
        cont == IF CovenantAlive(this, currentBalance)
                THEN <<BuildStateOutput(next, nextBalance)>> ELSE <<>>
    IN cont \o <<DataOutput(CovenantOpReturnScript(next))>>
            \o <<P2pkhOutput(claimerPkh, this.reward)>>

\* only the kinds and the values of the outputs are compared, not the scripts
CovenantClaimValuesOnly(this, currentBalance, claimerPkh, txOutputs) ==
    LET expected == CovenantOutputs(this, currentBalance, claimerPkh)
    IN /\ Int2ByteStringFits(this.organismType, 1)
       /\ Int2ByteStringFits(this.generation + 1, 4)
       /\ Len(txOutputs) = Len(expected)
       /\ \A i \in 1..Len(expected) :
              /\ txOutputs[i].kind = expected[i].kind
              /\ txOutputs[i].value = expected[i].value

\* assert(this.ctx.hashOutputs == hash256(outputs)); the script also fails
\* when a num2bin cannot encode its operand
CovenantClaim(this, currentBalance, claimerPkh, txOutputs) ==
    /\ Int2ByteStringFits(this.organismType, 1)
    /\ Int2ByteStringFits(this.generation + 1, 4)
    /\ txOutputs = CovenantOutputs(this, currentBalance, claimerPkh)

\* a spend of an organism output must run one of the contract's public
\* methods successfully
CovenantAccepts(method, this, currentBalance, claimerPkh, txOutputs) ==
    /\ method \in PublicMethods
    /\ method = "claim"
    /\ CovenantClaim(this, currentBalance, claimerPkh, txOutputs)

-----------------------------------------------------------------------------
(* The ledger *)

\* the ledger takes a transaction whose outputs carry non-negative values
\* that total no more than the consumed inputs
LedgerValid(inputValue, outputs) ==
    /\ \A i \in 1..Len(outputs) : outputs[i].value >= 0
    /\ SumValues(outputs) <= inputValue

\* a transaction on the ledger: its identifier, the contract method its
\* input called ("spawn" when it spends no organism output), its outputs
Tx(n, method, outputs) ==
    [id |-> TxidOf(n), method |-> method, outputs |-> outputs]

Output0(tx) == tx.outputs[1]

\* GET /tx/<txid>/0/spent: in a single chain every transaction but the last
\* has had its output 0 spent by its successor
Output0Spent(target) == target < Len(ledger)

Spawned == ledger # <<>>

Tip == ledger[Len(ledger)]

Alive == Spawned /\ Output0(Tip).kind = "state"

Dead == Spawned /\ Output0(Tip).kind # "state"

Result(op, method, status, consumed, built, pkh, amount, funds) ==
    [op |-> op, method |-> method, status |-> status, consumed |-> consumed,
     built |-> built, pkh |-> pkh, amount |-> amount, funds |-> funds]

-----------------------------------------------------------------------------
(* spawn.cjs *)

\* the spawn fee is taken out of the budget locked in the organism output
SpawnOutputsFeeFromBudget(type, budget, reward, fee, totalAvailable) ==
    LET organism == Organism(type, reward, fee, DUST_LIMIT, zeroTxid, 0)
        opReturnScript ==
            BuildSafeDataOut(<<ORG1, WriteUInt8(type), WriteUInt32LE(0),
                               Zeros(32)>>)
    IN <<StateOutput(organism, budget - SPAWN_FEE),
         DataOutput(opReturnScript)>>

\* the outputs of the spawn transaction
SpawnOutputs(type, budget, reward, fee, totalAvailable) ==
    LET organism == Organism(type, reward, fee, DUST_LIMIT, zeroTxid, 0)
        opReturnScript ==
            BuildSafeDataOut(<<ORG1, WriteUInt8(type), WriteUInt32LE(0),
                               Zeros(32)>>)
        change == totalAvailable - budget - SPAWN_FEE
    IN <<StateOutput(organism, budget), DataOutput(opReturnScript)>>
           \o (IF change > DUST_LIMIT
               THEN <<P2pkhOutput(FunderPkh, change)>> ELSE <<>>)

\* the dust limit is left out of the estimate
MaxGensNoDust(BUDGET, REWARD, FEE) == BUDGET \div (REWARD + FEE)

\* "~N generations possible": Math.floor of the quotient
MaxGens(BUDGET, REWARD, FEE) == (BUDGET - DUST_LIMIT) \div (REWARD + FEE)

Spawn(type, budget, reward, fee, totalAvailable) ==
    /\ ~Spawned
    /\ UNCHANGED reproductions
    /\ broadcasts' = IF totalAvailable = 0 \/ totalAvailable < budget + SPAWN_FEE
                     THEN <<>>
                     ELSE <<SpawnOutputs(type, budget, reward, fee,
                                         totalAvailable)>>
    /\ IF totalAvailable = 0
       THEN /\ result' = Result("spawn", "", "noUtxos", NoOutput, <<>>,
                                FunderPkh, budget, totalAvailable)
            /\ UNCHANGED ledger
       ELSE IF totalAvailable < budget + SPAWN_FEE
       THEN /\ result' = Result("spawn", "", "insufficient", NoOutput, <<>>,
                                FunderPkh, budget, totalAvailable)
            /\ UNCHANGED ledger
       ELSE LET outputs == SpawnOutputs(type, budget, reward, fee,
                                        totalAvailable)
            IN IF LedgerValid(totalAvailable, outputs)
               THEN /\ ledger' = <<Tx(1, "spawn", outputs)>>
                    /\ result' = Result("spawn", "", "ok", NoOutput, outputs,
                                        FunderPkh, budget, totalAvailable)
               ELSE /\ result' = Result("spawn", "", "broadcast", NoOutput,
                                        outputs, FunderPkh, budget,
                                        totalAvailable)
                    /\ UNCHANGED ledger

-----------------------------------------------------------------------------
(* claim.cjs *)

\* the reward output is added before the annotation
ClaimTxBuilderRewardFirst(organism, currentBalance, addr) ==
    LET nextBalance == currentBalance - organism.reward - organism.fee
        nextInstance == [organism EXCEPT !.generation = organism.generation + 1]
        opReturnScript ==
            BuildSafeDataOut(<<ORG1, WriteUInt8(organism.organismType),
                               WriteUInt32LE(organism.generation + 1),
                               organism.spawnTxid>>)
    IN (IF nextBalance >= organism.dustLimit
        THEN <<StateOutput(nextInstance, nextBalance)>> ELSE <<>>)
           \o <<P2pkhOutput(addr, organism.reward)>>
           \o <<DataOutput(opReturnScript)>>

\* the transaction bindTxBuilder('claim') assembles
ClaimTxBuilder(organism, currentBalance, addr) ==
    LET reward == organism.reward
        fee == organism.fee
        nextBalance == currentBalance - reward - fee
        alive == nextBalance >= organism.dustLimit
        gen == organism.generation
        nextInstance == [organism EXCEPT !.generation = organism.generation + 1]
        opReturnScript ==
            BuildSafeDataOut(<<ORG1, WriteUInt8(organism.organismType),
                               WriteUInt32LE(gen + 1), organism.spawnTxid>>)
    IN (IF alive THEN <<StateOutput(nextInstance, nextBalance)>> ELSE <<>>)
           \o <<DataOutput(opReturnScript)>>
           \o <<P2pkhOutput(addr, reward)>>

\* a broadcast the ledger rejected is sent a second time
SubmitResubmits(op, method, consumed, extra, outputs, pkh, amount) ==
    IF ~CovenantAccepts(method, consumed.script, consumed.value, pkh, outputs)
    THEN /\ result' = Result(op, method, "covenant", consumed, outputs, pkh,
                             amount, extra)
         /\ broadcasts' = <<>>
         /\ UNCHANGED <<ledger, reproductions>>
    ELSE IF ~LedgerValid(consumed.value + extra, outputs)
    THEN /\ result' = Result(op, method, "broadcast", consumed, outputs, pkh,
                             amount, extra)
         /\ broadcasts' = <<outputs, outputs>>
         /\ UNCHANGED <<ledger, reproductions>>
    ELSE /\ result' = Result(op, method, "ok", consumed, outputs, pkh, amount,
                             extra)
         /\ broadcasts' = <<outputs>>
         /\ ledger' = Append(ledger, Tx(Len(ledger) + 1, method, outputs))
         /\ reproductions' = reproductions + (IF method = "claim" THEN 1 ELSE 0)

\* submit a spend of the organism output `consumed` together with further
\* inputs worth `extra`: the contract call, then the broadcast
Submit(op, method, consumed, extra, outputs, pkh, amount) ==
    IF ~CovenantAccepts(method, consumed.script, consumed.value, pkh, outputs)
    THEN /\ result' = Result(op, method, "covenant", consumed, outputs, pkh,
                             amount, extra)
         /\ broadcasts' = <<>>
         /\ UNCHANGED <<ledger, reproductions>>
    ELSE IF ~LedgerValid(consumed.value + extra, outputs)
    THEN /\ result' = Result(op, method, "broadcast", consumed, outputs, pkh,
                             amount, extra)
         /\ broadcasts' = <<outputs>>
         /\ UNCHANGED <<ledger, reproductions>>
    ELSE /\ result' = Result(op, method, "ok", consumed, outputs, pkh, amount,
                             extra)
         /\ broadcasts' = <<outputs>>
         /\ ledger' = Append(ledger, Tx(Len(ledger) + 1, method, outputs))
         /\ reproductions' = reproductions + (IF method = "claim" THEN 1 ELSE 0)

Claim(target, addr) ==
    /\ Spawned
    /\ target \in 1..Len(ledger)
    /\ LET consumed == Output0(ledger[target])
       IN IF addr \notin Pkhs
          THEN /\ result' = Result("claim", "claim", "badAddress", NoOutput,
                                   <<>>, addr, 0, 0)
               /\ broadcasts' = <<>>
               /\ UNCHANGED <<ledger, reproductions>>
          ELSE IF Output0Spent(target)
          THEN /\ result' = Result("claim", "claim", "spent", NoOutput, <<>>,
                                   addr, 0, 0)
               /\ broadcasts' = <<>>
               /\ UNCHANGED <<ledger, reproductions>>
          ELSE IF consumed.kind # "state"
          THEN /\ result' = Result("claim", "claim", "notOrganism", NoOutput,
                                   <<>>, addr, 0, 0)
               /\ broadcasts' = <<>>
               /\ UNCHANGED <<ledger, reproductions>>
          ELSE /\ consumed.script.generation < MaxGen
               /\ Submit("claim", "claim", consumed, 0,
                         ClaimTxBuilder(consumed.script, consumed.value, addr),
                         addr, 0)

-----------------------------------------------------------------------------
(* fund.cjs *)

\* the new balance is the amount alone, the current balance is dropped
FundTxBuilderAmountOnly(organism, currentBalance, AMOUNT, FEE, totalAvailable) ==
    LET newBalance == AMOUNT
        gen == organism.generation
        opReturnScript ==
            BuildSafeDataOut(<<ORG1, WriteUInt8(organism.organismType),
                               WriteUInt32LE(gen), organism.spawnTxid>>)
        changeForContract == totalAvailable - AMOUNT - FEE
    IN <<StateOutput(organism, newBalance), DataOutput(opReturnScript)>>
           \o (IF changeForContract > FUND_DUST
               THEN <<P2pkhOutput(FunderPkh, changeForContract)>> ELSE <<>>)

\* the transaction bindTxBuilder('fund') assembles
FundTxBuilder(organism, currentBalance, AMOUNT, FEE, totalAvailable) ==
    LET newBalance == currentBalance + AMOUNT
        gen == organism.generation
        nextInstance == organism
        opReturnScript ==
            BuildSafeDataOut(<<ORG1, WriteUInt8(organism.organismType),
                               WriteUInt32LE(gen), organism.spawnTxid>>)
        totalIn == currentBalance + totalAvailable
        changeForContract == totalIn - newBalance - FEE
        hasChange == changeForContract > FUND_DUST
    IN <<StateOutput(nextInstance, newBalance), DataOutput(opReturnScript)>>
           \o (IF hasChange
               THEN <<P2pkhOutput(FunderPkh, changeForContract)>> ELSE <<>>)

\* oldGensLeft, newGensLeft: the generations a balance pays for
GensLeft(balance, organism) ==
    (balance - 546) \div (organism.reward + organism.fee)

\* organism.methods.fund(...) runs the builder and calls the contract's
\* `fund`, which Organism does not declare: the call fails and nothing is
\* broadcast
Fund(target, AMOUNT, FEE, totalAvailable) ==
    /\ Spawned
    /\ target \in 1..Len(ledger)
    /\ LET consumed == Output0(ledger[target])
           Failed(status) ==
               /\ result' = Result("fund", "fund", status, NoOutput, <<>>,
                                   FunderPkh, AMOUNT, totalAvailable)
               /\ broadcasts' = <<>>
               /\ UNCHANGED <<ledger, reproductions>>
       IN IF AMOUNT = 0 THEN Failed("usage")
          ELSE IF Output0Spent(target) THEN Failed("spent")
          ELSE IF consumed.kind # "state" THEN Failed("notOrganism")
          ELSE IF totalAvailable = 0 THEN Failed("noUtxos")
          ELSE IF totalAvailable < AMOUNT + FEE THEN Failed("insufficient")
          ELSE Submit("fund", "fund", consumed, totalAvailable,
                      FundTxBuilder(consumed.script, consumed.value, AMOUNT,
                                    FEE, totalAvailable),
                      FunderPkh, AMOUNT)

-----------------------------------------------------------------------------
(* Anyone may spend the organism output with a transaction of their own   *)
(* making; the covenant and the ledger decide.                            *)

OtherPkh(pkh) == CHOOSE p \in Pkhs : p # pkh

Annotation(type, gen, spawn) ==
    DataOutput(BuildSafeDataOut(<<ORG1, WriteUInt8(type), WriteUInt32LE(gen),
                                  spawn>>))

\* candidate output lists for a spend calling `claim`: the honest one and
\* its neighbours (one output changed, dropped, added or moved)
ClaimProposals(o, v, pkh) ==
    LET next == [o EXCEPT !.generation = o.generation + 1]
        nb == v - o.reward - o.fee
        cont == IF nb >= o.dustLimit THEN <<StateOutput(next, nb)>> ELSE <<>>
        ann == Annotation(o.organismType, o.generation + 1, o.spawnTxid)
        rew == P2pkhOutput(pkh, o.reward)
        contValues == {x \in {nb, nb + 1, v} : x >= 0}
        contScripts == {next, o,
                        [next EXCEPT !.organismType = 1],
                        [next EXCEPT !.reward = o.reward + 1],
                        [next EXCEPT !.fee = 1],
                        [next EXCEPT !.dustLimit = 0],
                        [next EXCEPT !.spawnTxid = TxidOf(1)]}
        conts == {<<>>}
                 \cup {<<StateOutput(next, x)>> : x \in contValues}
                 \cup {<<StateOutput(s, x)>> :
                          s \in contScripts, x \in {nb} \cap Nat}
        anns == {ann,
                 Annotation(o.organismType, o.generation, o.spawnTxid),
                 Annotation(o.organismType, o.generation + 1, TxidOf(1))}
        rews == {<<rew>>, <<>>,
                 <<P2pkhOutput(pkh, o.reward + 1)>>,
                 <<P2pkhOutput(OtherPkh(pkh), o.reward)>>,
                 <<rew, P2pkhOutput(pkh, 1)>>}
    IN {c \o <<ann, rew>> : c \in conts}
       \cup {cont \o <<a, rew>> : a \in anns}
       \cup {cont \o <<ann>> \o r : r \in rews}
       \cup {cont \o <<rew, ann>>}
       \cup {<<StateOutput(o, x),
               Annotation(o.organismType, o.generation, o.spawnTxid), rew>> :
                 x \in {nb} \cap Nat}

\* candidate output lists for a spend calling `fund`
FundProposals(o, v) ==
    {<<StateOutput(o, v + x), Annotation(o.organismType, o.generation,
                                         o.spawnTxid)>> : x \in {100}}

Spend(method, pkh, outputs) ==
    /\ Alive
    /\ Output0(Tip).script.generation < MaxGen
    /\ Submit("spend", method, Output0(Tip),
              IF method = "claim" THEN 0 ELSE 200, outputs, pkh, 0)

-----------------------------------------------------------------------------
(* scanner.cjs: the ORG1 decoder *)

\* a hex string is a sequence of hex digits 0..15; scriptPubKey.hex of a
\* script is two digits per byte, high digit first
ToHex(bytes) ==
    [i \in 1..(2 * Len(bytes)) |->
        IF i % 2 = 1 THEN bytes[(i + 1) \div 2] \div 16
        ELSE bytes[i \div 2] % 16]

\* Buffer.from(hex, 'hex'): one byte per complete pair of digits
BufferFromHex(hex) ==
    [i \in 1..(Len(hex) \div 2) |-> 16 * hex[2 * i - 1] + hex[2 * i]]

\* String.prototype.indexOf: 0-based position of the first occurrence, -1
\* when there is none
IndexOf(hex, pattern) ==
    LET hits == {i \in 1..(Len(hex) - Len(pattern) + 1) :
                    SubSeq(hex, i, i + Len(pattern) - 1) = pattern}
    IN IF hits = {} THEN -1
       ELSE (CHOOSE i \in hits : \A j \in hits : i <= j) - 1

\* parseInt and arithmetic on it give NaN where there is no number
NaN == -1

\* String.prototype.slice(from, to) with 0-based from, exclusive to, both
\* clamped to the string; a NaN bound counts as 0
Slice(hex, from, to) ==
    LET lo == IF from > Len(hex) THEN Len(hex) ELSE from
        hi == IF to > Len(hex) THEN Len(hex) ELSE to
    IN IF from = NaN \/ to = NaN \/ hi <= lo THEN <<>>
       ELSE SubSeq(hex, lo + 1, hi)

\* parseInt(hex, 16): NaN for the empty string
RECURSIVE ParseInt(_)
ParseInt(hex) ==
    IF hex = <<>> THEN NaN
    ELSE IF Len(hex) = 1 THEN hex[1]
    ELSE 16 * ParseInt(SubSeq(hex, 1, Len(hex) - 1)) + hex[Len(hex)]

\* the four bytes are read high byte first
ReadUInt32BE(buf) ==
    buf[4] + 256 * buf[3] + 65536 * buf[2] + 16777216 * buf[1]

\* Buffer.readUInt32LE(0) of a buffer of at least four bytes
ReadUInt32LE(buf) ==
    buf[1] + 256 * buf[2] + 65536 * buf[3] + 16777216 * buf[4]

\* what decodeORG1 can come to: a record, null, or the RangeError that
\* readUInt32LE throws on a buffer shorter than four bytes
Null == [kind |-> "null"]

RangeError == [kind |-> "RangeError"]

Org1(type, generation, spawnTxid, payload) ==
    [kind |-> "org1", type |-> type, generation |-> generation,
     spawnTxid |-> spawnTxid, payload |-> payload]

\* 2 + 2 + 8 + 2 + 64: the hex digits of the three fixed pushes
MinAfter == 78

\* the tag is looked for at any hex digit, not only at byte boundaries
DecodeOutput(hex) ==
    LET idx == IndexOf(hex, ToHex(ORG1))
        after == Slice(hex, idx + 8, Len(hex))
        typePushLen == ParseInt(Slice(after, 0, 2))
        type == ParseInt(Slice(after, 2, 2 + typePushLen * 2))
        pos1 == 2 + typePushLen * 2
        genPushLen == ParseInt(Slice(after, pos1, pos1 + 2))
        genHex == IF genPushLen = NaN THEN <<>>
                  ELSE Slice(after, pos1 + 2, pos1 + 2 + genPushLen * 2)
        genBuf == BufferFromHex(genHex)
        pos2 == pos1 + 2 + genPushLen * 2
        spawnPushLen == ParseInt(Slice(after, pos2, pos2 + 2))
        pos3 == IF spawnPushLen = NaN THEN NaN
                ELSE pos2 + 2 + spawnPushLen * 2
        spawnTxid == Slice(after, pos2 + 2, pos3)
        \* slice(NaN) is slice(0)
        payload == IF pos3 = NaN THEN after ELSE Slice(after, pos3, Len(after))
    IN IF idx = -1 \/ Len(after) < MinAfter THEN Null
       ELSE IF Len(genBuf) < 4 THEN RangeError
       ELSE Org1(type, ReadUInt32LE(genBuf), spawnTxid, payload)

\* the first output that holds the tag with enough behind it decides; an
\* output without the tag, or with too little behind it, is passed over
RECURSIVE DecodeORG1(_)
DecodeORG1(vout) ==
    IF vout = <<>> THEN Null
    ELSE LET hex == ToHex(Head(vout))
             idx == IndexOf(hex, ToHex(ORG1))
         IN IF idx = -1 \/ Len(hex) - (idx + 8) < MinAfter
            THEN DecodeORG1(Tail(vout))
            ELSE DecodeOutput(hex)

\* the annotation script of a record, each field and each payload segment
\* a pushdata of its own
Encode(r) ==
    BuildSafeDataOut(<<ORG1, WriteUInt8(r.type), WriteUInt32LE(r.generation),
                       r.spawnTxid>> \o r.payload)

\* a pay-to-public-key-hash locking script: no tag in it
P2pkhScript == <<118, 169, 20>> \o [i \in 1..20 |-> 170] \o <<136, 172>>

\* records to encode: species, generation, lineage origin, payload segments
CodecTypes == {0, 127, 200}
CodecGens == {0, 1, 258, 70000}
CodecOrigins == {zeroTxid, TxidOf(1)}
Payloads == {<<>>, <<<<7>>>>, <<<<1, 2>>, <<3>>>>}

Records ==
    [type : CodecTypes, generation : CodecGens, spawnTxid : CodecOrigins,
     payload : Payloads]

NoRecord == [type |-> 0, generation |-> 0, spawnTxid |-> zeroTxid,
             payload |-> <<>>]

\* an annotation script cut off after its first n bytes: 7 is the tag alone,
\* 9 the species push, 14 the generation push, 47 the whole script
TruncLens == {7, 9, 14, 30, 45, 46}

Truncated(r, n) == SubSeq(Encode(r), 1, n)

\* the push of the lineage origin declares 64 bytes where 32 follow
Overrun(r) == [Encode(r) EXCEPT ![15] = 64]

\* the generation is pushed as two bytes, a one-byte payload follows
ShortGen(r) ==
    <<0, 106, 4>> \o ORG1 \o <<1, r.type, 2, 1, 0, 32>> \o r.spawnTxid
        \o <<1, 7>>

\* the hex digits of the tag and the three pushes, moved by half a byte: no
\* byte of the script starts the tag
Misaligned(r) ==
    BufferFromHex(<<0>> \o ToHex(SubSeq(Encode(r), 4, 47)) \o <<0>>)

\* transactions that were not made by encoding a record
RawTxs ==
    LET plain == {r \in Records : r.payload = <<>>}
        cut == {Truncated(r, n) : r \in plain, n \in TruncLens}
        odd == {Overrun(r) : r \in plain} \cup {Misaligned(r) : r \in plain}
               \cup {ShortGen(r) : r \in plain}
    IN {<<o>> : o \in cut \cup odd \cup {P2pkhScript}}
       \cup {<<P2pkhScript, o>> : o \in cut}
       \cup {<<Truncated(r, 9), Encode(r)>> : r \in plain}
       \cup {<<>>, <<P2pkhScript, P2pkhScript>>}

\* decodeORG1 on the transaction that carries the annotation of r, followed
\* by a payment as on the death path
RoundTrip(r) ==
    LET vout == <<Encode(r), P2pkhScript>>
    IN codec' = [op |-> "encode", record |-> r, vout |-> vout,
                 org1 |-> DecodeORG1(vout)]

\* decodeORG1 on any other transaction
Decode(vout) ==
    codec' = [op |-> "decode", record |-> NoRecord, vout |-> vout,
              org1 |-> DecodeORG1(vout)]

\* what the compiled contract holds after the pushed tag constant is not
\* fixed by organism.ts: some builds of it, each longer than the 39 bytes
\* decodeORG1 asks for (the rest of `claim` and the state follow the tag)
RestLen == 40

CodeRests ==
    {[i \in 1..RestLen |-> 0],
     [i \in 1..RestLen |-> 1],
     <<1, 126, 4, 1, 0, 0, 0>> \o [i \in 1..(RestLen - 7) |-> 0],
     <<1, 0, 4, 0, 0, 0, 0, 32>> \o [i \in 1..(RestLen - 8) |-> 0]}

\* the covenant's locking script from the pushed constant toByteString(
\* '4f524731') on
LockingScript(rest) == <<4>> \o ORG1 \o rest

\* scriptPubKey of an output of a built transaction
ScriptPubKey(out, rest) ==
    IF out.kind = "state" THEN LockingScript(rest)
    ELSE IF out.kind = "data" THEN out.bytes
    ELSE P2pkhScript

\* tx.vout of a built transaction
Vout(outputs, rest) ==
    [i \in 1..Len(outputs) |-> ScriptPubKey(outputs[i], rest)]

\* decodeORG1 on the transaction the last builder assembled
DecodeBuilt(rest) ==
    /\ result.built # <<>>
    /\ LET vout == Vout(result.built, rest)
       IN codec' = [op |-> "built", record |-> NoRecord, vout |-> vout,
                    org1 |-> DecodeORG1(vout)]

-----------------------------------------------------------------------------
(* scanner.cjs: the lineage walker *)

\* no transaction identifier: a null currentTxid, an entry without spentBy
NoTxid == <<>>

\* wocGet('/tx/<txid>'): the transaction the ledger has under the
\* identifier; 0 stands for the 404 of an identifier it does not have
LedgerIndex(txid) ==
    IF \E i \in 1..Len(ledger) : ledger[i].id = txid
    THEN CHOOSE i \in 1..Len(ledger) : ledger[i].id = txid
    ELSE 0

\* last output that pays to an address, 'unknown' when there is none
RECURSIVE GetRewardAddress(_)
GetRewardAddress(outputs) ==
    IF outputs = <<>> THEN "unknown"
    ELSE IF outputs[Len(outputs)].kind = "p2pkh"
    THEN outputs[Len(outputs)].pkh
    ELSE GetRewardAddress(SubSeq(outputs, 1, Len(outputs) - 1))

\* sum of the paying outputs behind output 0
RECURSIVE RewardSats(_, _)
RewardSats(outputs, i) ==
    IF i > Len(outputs) THEN 0
    ELSE (IF outputs[i].value > 0 /\ outputs[i].kind = "p2pkh"
          THEN outputs[i].value ELSE 0)
         + RewardSats(outputs, i + 1)

\* the fee is the whole drop of the balance, the reward not taken off
EntryFeeWithReward(lineage, generation, tx) ==
    LET isSpawn == generation = 0
        balance == tx.outputs[1].value
        hasPrev == generation > 0 /\ generation <= Len(lineage)
    IN [generation |-> generation, txid |-> tx.id, balance |-> balance,
        claimer |-> IF isSpawn THEN "spawn" ELSE GetRewardAddress(tx.outputs),
        reward |-> IF isSpawn THEN 0 ELSE RewardSats(tx.outputs, 2),
        fee |-> IF hasPrev THEN lineage[generation].balance - balance ELSE 0,
        alive |-> TRUE, spentBy |-> NoTxid]

\* the entry of the transaction walked at `generation`, before the spent
\* check; block height and time and the decoded annotation ride along in
\* the source without taking part in the walk and are left out
Entry(lineage, generation, tx) ==
    LET isSpawn == generation = 0
        balance == tx.outputs[1].value
        rewardSats == IF isSpawn THEN 0 ELSE RewardSats(tx.outputs, 2)
        hasPrev == generation > 0 /\ generation <= Len(lineage)
        feePaid == IF hasPrev
                   THEN lineage[generation].balance - balance - rewardSats
                   ELSE 0
    IN [generation |-> generation, txid |-> tx.id, balance |-> balance,
        claimer |-> IF isSpawn THEN "spawn" ELSE GetRewardAddress(tx.outputs),
        reward |-> rewardSats, fee |-> feePaid, alive |-> TRUE,
        spentBy |-> NoTxid]

\* the cached entry that is checked again is kept as well
WithoutLastKeepsAll(existing) == existing

\* existing.slice(0, -1)
WithoutLast(existing) == SubSeq(existing, 1, Len(existing) - 1)

\* a resume with a known successor starts at the generation of the last
\* cached entry instead of the one after it
ResumePointSameGen(existing, spawnTxid) ==
    LET last == existing[Len(existing)]
    IN IF existing = <<>>
       THEN [lineage |-> <<>>, startTxid |-> spawnTxid, startGen |-> 0,
             mode |-> "fresh"]
       ELSE IF last.spentBy # NoTxid
       THEN [lineage |-> existing, startTxid |-> last.spentBy,
             startGen |-> last.generation, mode |-> "resuming"]
       ELSE IF last.alive
       THEN [lineage |-> WithoutLast(existing),
             startTxid |-> last.txid, startGen |-> last.generation,
             mode |-> "re-checking"]
       ELSE [lineage |-> <<>>, startTxid |-> spawnTxid, startGen |-> 0,
             mode |-> "fresh"]

\* where the walk starts, given the cached lineage
ResumePoint(existing, spawnTxid) ==
    LET last == existing[Len(existing)]
    IN IF existing = <<>>
       THEN [lineage |-> <<>>, startTxid |-> spawnTxid, startGen |-> 0,
             mode |-> "fresh"]
       ELSE IF last.spentBy # NoTxid
       \* Resuming from Gen <startGen>
       THEN [lineage |-> existing, startTxid |-> last.spentBy,
             startGen |-> last.generation + 1, mode |-> "resuming"]
       ELSE IF last.alive
       \* Re-checking Gen <startGen>
       THEN [lineage |-> WithoutLast(existing),
             startTxid |-> last.txid, startGen |-> last.generation,
             mode |-> "re-checking"]
       ELSE [lineage |-> <<>>, startTxid |-> spawnTxid, startGen |-> 0,
             mode |-> "fresh"]

\* how a ledger read of the walk can go wrong: the n-th transaction fetch
\* of the walk answers 404 (wocGet resolves null) or fails (wocGet rejects),
\* or the spent query that follows it fails ("spent"), which the loop
\* catches and takes for an unspent output
Fails(failAt, how) == [at |-> failAt, how |-> how]

\* every transaction is fetched a second time after its spent check
RECURSIVE WalkLoopFetchesTwice(_, _, _, _, _)
WalkLoopFetchesTwice(lineage, currentTxid, generation, fetched, fails) ==
    LET i == LedgerIndex(currentTxid)
        entry == Entry(lineage, generation, ledger[i])
        asked == fetched \o <<currentTxid, currentTxid>>
    IN IF i = 0 \/ fails.at > 0
       THEN [ended |-> "break", lineage |-> lineage,
             fetched |-> Append(fetched, currentTxid),
             unresolved |-> currentTxid, spentQuery |-> "none"]
       ELSE IF Output0Spent(i)
       THEN WalkLoopFetchesTwice(
                Append(lineage, [entry EXCEPT !.alive = FALSE,
                                              !.spentBy = ledger[i + 1].id]),
                ledger[i + 1].id, generation + 1, asked, fails)
       ELSE [ended |-> "tip", lineage |-> Append(lineage, entry),
             fetched |-> asked, unresolved |-> NoTxid,
             spentQuery |-> "unspent"]

\* the while loop: lineage so far, currentTxid, generation, the transaction
\* identifiers fetched so far
RECURSIVE WalkLoop(_, _, _, _, _)
WalkLoop(lineage, currentTxid, generation, fetched, fails) ==
    LET n == Len(fetched) + 1
        i == LedgerIndex(currentTxid)
        tx == ledger[i]
        entry == Entry(lineage, generation, tx)
        spentBy == ledger[i + 1].id
        asked == Append(fetched, currentTxid)
        \* try { spentInfo = await wocGet(...) } catch {}
        spentCaught == fails.at = n /\ fails.how = "spent"
    IN IF fails.at = n /\ fails.how = "error"
       THEN [ended |-> "threw", lineage |-> lineage, fetched |-> asked,
             unresolved |-> currentTxid, spentQuery |-> "none"]
       ELSE IF i = 0 \/ (fails.at = n /\ fails.how = "404")
       THEN [ended |-> "break", lineage |-> lineage, fetched |-> asked,
             unresolved |-> currentTxid, spentQuery |-> "none"]
       ELSE IF Output0Spent(i) /\ ~spentCaught
       THEN WalkLoop(Append(lineage, [entry EXCEPT !.alive = FALSE,
                                                   !.spentBy = spentBy]),
                     spentBy, generation + 1, asked, fails)
       ELSE [ended |-> "tip", lineage |-> Append(lineage, entry),
             fetched |-> asked, unresolved |-> NoTxid,
             spentQuery |-> IF spentCaught THEN "rejected" ELSE "unspent"]

\* what a call of traceLineage came to: it returned the lineage or threw;
\* how and at which generation it started, the transactions it fetched, the
\* identifier it could not fetch, the ALIVE/DEAD line of its summary, and
\* how the spent query went that ended the loop ("none" when none did)
Walk(status, start, w, lineage, summary) ==
    [status |-> status, mode |-> start.mode, startGen |-> start.startGen,
     fetched |-> w.fetched, unresolved |-> w.unresolved,
     spentQuery |-> w.spentQuery, lineage |-> lineage, summary |-> summary]

\* no trace was run yet
NoWalk ==
    Walk("none", [mode |-> "fresh", startGen |-> 0],
         [fetched |-> <<>>, unresolved |-> NoTxid, spentQuery |-> "none"],
         <<>>, "")

\* the cached lineage is not read: every walk starts over at the origin
TraceLineageFromOrigin(spawnTxid, fails) ==
    LET start == ResumePoint(<<>>, spawnTxid)
        w == WalkLoop(<<>>, spawnTxid, 0, <<>>, fails)
    IN IF w.ended = "threw"
       THEN /\ walk' = Walk("threw", start, w, <<>>, "")
            /\ UNCHANGED lineageFile
       ELSE /\ lineageFile' = w.lineage
            /\ walk' = IF w.lineage = <<>>
                       THEN Walk("threw", start, w, <<>>, "")
                       ELSE Walk("returned", start, w, w.lineage,
                                 IF w.lineage[Len(w.lineage)].alive
                                 THEN "ALIVE" ELSE "DEAD")

\* traceLineage(spawnTxid): resume from the cached lineage, walk, write the
\* lineage file once after the loop, print the summary
TraceLineage(spawnTxid, fails) ==
    LET start == ResumePoint(lineageFile, spawnTxid)
        w == WalkLoop(start.lineage, start.startTxid, start.startGen, <<>>,
                      fails)
        living == w.lineage[Len(w.lineage)]
    IN IF w.ended = "threw"
       THEN /\ walk' = Walk("threw", start, w, <<>>, "")
            /\ UNCHANGED lineageFile
       ELSE /\ lineageFile' = w.lineage
            /\ walk' = IF w.lineage = <<>>
                       \* living is undefined: living.alive throws
                       THEN Walk("threw", start, w, <<>>, "")
                       ELSE Walk("returned", start, w, w.lineage,
                                 IF living.alive THEN "ALIVE" ELSE "DEAD")

\* an ordinary payment, such as those that fund the wallet: one output to
\* a public key hash, spending output 0 of the payment before it
PayValues == {3000, 4000, 5000}

Pay(pkh, value) ==
    /\ Len(ledger) <= MaxGen
    /\ ledger # <<>> =>
           /\ Output0(Tip).kind = "p2pkh"
           /\ LedgerValid(Output0(Tip).value, <<P2pkhOutput(pkh, value)>>)
    /\ ledger' = Append(ledger, Tx(Len(ledger) + 1, "pay",
                                   <<P2pkhOutput(pkh, value)>>))

\* SCHEMA.md, "fund (feed)": output 0 has the same locking script and a
\* value greater than the input's, output 1 is the ORG1 annotation with the
\* generation unchanged, no reward is paid
CovenantFund(script, value, outputs) ==
    /\ Len(outputs) >= 2
    /\ outputs[1] = StateOutput(script, outputs[1].value)
    /\ outputs[1].value > value
    /\ outputs[2] = Annotation(script.organismType, script.generation,
                               script.spawnTxid)

\* fund.cjs run against a contract that declares `fund` as documented
Fed(target, AMOUNT, FEE, totalAvailable) ==
    /\ Spawned
    /\ target \in 1..Len(ledger)
    /\ Len(ledger) <= MaxGen
    /\ LET consumed == Output0(ledger[target])
           outputs == FundTxBuilder(consumed.script, consumed.value, AMOUNT,
                                    FEE, totalAvailable)
           Failed(status) ==
               /\ result' = Result("fund", "fund", status, NoOutput, <<>>,
                                   FunderPkh, AMOUNT, totalAvailable)
               /\ broadcasts' = <<>>
               /\ UNCHANGED <<ledger, reproductions>>
           Rejected(status, sent) ==
               /\ result' = Result("fund", "fund", status, consumed, outputs,
                                   FunderPkh, AMOUNT, totalAvailable)
               /\ broadcasts' = sent
               /\ UNCHANGED <<ledger, reproductions>>
       IN IF AMOUNT = 0 THEN Failed("usage")
          ELSE IF Output0Spent(target) THEN Failed("spent")
          ELSE IF consumed.kind # "state" THEN Failed("notOrganism")
          ELSE IF totalAvailable = 0 THEN Failed("noUtxos")
          ELSE IF totalAvailable < AMOUNT + FEE THEN Failed("insufficient")
          ELSE IF ~CovenantFund(consumed.script, consumed.value, outputs)
          THEN Rejected("covenant", <<>>)
          ELSE IF ~LedgerValid(consumed.value + totalAvailable, outputs)
          THEN Rejected("broadcast", <<outputs>>)
          ELSE /\ result' = Result("fund", "fund", "ok", consumed, outputs,
                                   FunderPkh, AMOUNT, totalAvailable)
               /\ broadcasts' = <<outputs>>
               /\ ledger' = Append(ledger, Tx(Len(ledger) + 1, "fund",
                                              outputs))
               /\ UNCHANGED reproductions

-----------------------------------------------------------------------------
(* Two invocations side by side.  An invocation reads the ledger (the      *)
(* unspent check, the organism transaction), builds and calls the contract *)
(* locally, and only then awaits wocBroadcast: another invocation's        *)
(* broadcast can land in between.                                          *)

Racers == {"r1", "r2"}

\* where an invocation stands: not started, built and about to broadcast,
\* or exited with a status
Racer(pc, op, target, consumed, built, extra, status, sent) ==
    [pc |-> pc, op |-> op, target |-> target, consumed |-> consumed,
     built |-> built, extra |-> extra, status |-> status, sent |-> sent]

Idle == Racer("idle", "", 0, NoOutput, <<>>, 0, "none", 0)

\* claim.cjs up to the broadcast: address check, unspent check, the
\* organism read from its transaction, the builder and the contract call
RaceClaim(p, target, addr) ==
    /\ race[p].pc # "built"
    /\ Spawned
    /\ target \in 1..Len(ledger)
    /\ UNCHANGED <<ledger, result, reproductions, broadcasts>>
    /\ LET consumed == Output0(ledger[target])
           outputs == ClaimTxBuilder(consumed.script, consumed.value, addr)
           Exit(status) ==
               race' = [race EXCEPT ![p] =
                   Racer("done", "claim", target, NoOutput, <<>>, 0, status, 0)]
       IN IF addr \notin Pkhs THEN Exit("badAddress")
          ELSE IF Output0Spent(target) THEN Exit("spent")
          ELSE IF consumed.kind # "state" THEN Exit("notOrganism")
          ELSE /\ consumed.script.generation < MaxGen
               /\ IF ~CovenantAccepts("claim", consumed.script,
                                      consumed.value, addr, outputs)
                  THEN Exit("covenant")
                  ELSE race' = [race EXCEPT ![p] =
                           Racer("built", "claim", target, consumed, outputs,
                                 0, "none", 0)]

\* fund.cjs up to the broadcast
RaceFund(p, target, AMOUNT, FEE, totalAvailable) ==
    /\ race[p].pc # "built"
    /\ Spawned
    /\ target \in 1..Len(ledger)
    /\ UNCHANGED <<ledger, result, reproductions, broadcasts>>
    /\ LET consumed == Output0(ledger[target])
           outputs == FundTxBuilder(consumed.script, consumed.value, AMOUNT,
                                    FEE, totalAvailable)
           Exit(status) ==
               race' = [race EXCEPT ![p] =
                   Racer("done", "fund", target, NoOutput, <<>>, 0, status, 0)]
       IN IF AMOUNT = 0 THEN Exit("usage")
          ELSE IF Output0Spent(target) THEN Exit("spent")
          ELSE IF consumed.kind # "state" THEN Exit("notOrganism")
          ELSE IF totalAvailable = 0 THEN Exit("noUtxos")
          ELSE IF totalAvailable < AMOUNT + FEE THEN Exit("insufficient")
          ELSE IF ~CovenantAccepts("fund", consumed.script, consumed.value,
                                   FunderPkh, outputs)
          THEN Exit("covenant")
          ELSE race' = [race EXCEPT ![p] =
                   Racer("built", "fund", target, consumed, outputs,
                         totalAvailable, "none", 0)]

\* the output the transaction spends was spent in the meantime, and the
\* ledger takes the second spend as well
RaceBroadcastTwiceSpent(p) ==
    LET r == race[p]
        Exit(status) ==
            race' = [race EXCEPT ![p] = [r EXCEPT !.pc = "done",
                                                  !.status = status,
                                                  !.sent = r.sent + 1]]
    IN /\ r.pc = "built"
       /\ UNCHANGED <<result, broadcasts>>
       /\ IF LedgerValid(r.consumed.value + r.extra, r.built)
          THEN /\ ledger' = Append(ledger, Tx(Len(ledger) + 1, r.op, r.built))
               /\ reproductions' = reproductions + 1
               /\ Exit("ok")
          ELSE /\ UNCHANGED <<ledger, reproductions>>
               /\ Exit("broadcast")

\* await wocBroadcast(txhex), then the exit: the single-spend ledger takes
\* the transaction only if the output it spends is still unspent
RaceBroadcast(p) ==
    LET r == race[p]
        Exit(status) ==
            race' = [race EXCEPT ![p] = [r EXCEPT !.pc = "done",
                                                  !.status = status,
                                                  !.sent = r.sent + 1]]
    IN /\ r.pc = "built"
       /\ UNCHANGED <<result, broadcasts>>
       /\ IF ~Output0Spent(r.target)
             /\ LedgerValid(r.consumed.value + r.extra, r.built)
          THEN /\ ledger' = Append(ledger, Tx(Len(ledger) + 1, r.op, r.built))
               /\ reproductions' = reproductions + 1
               /\ Exit("ok")
          ELSE /\ UNCHANGED <<ledger, reproductions>>
               /\ Exit("broadcast")

-----------------------------------------------------------------------------

Init ==
    /\ ledger = <<>>
    /\ result = Result("none", "", "none", NoOutput, <<>>, "", 0, 0)
    /\ reproductions = 0
    /\ broadcasts = <<>>
    /\ codec = [op |-> "none", record |-> NoRecord, vout |-> <<>>,
                org1 |-> Null]
    /\ lineageFile = <<>>
    /\ walk = NoWalk
    /\ race = [p \in Racers |-> Idle]

DoSpawn ==
    /\ \E type \in Types, budget \in Budgets, reward \in Rewards,
          fee \in Fees :
           \E totalAvailable \in
                  {0} \cup {budget + SPAWN_FEE + x : x \in SpawnExtras} :
               Spawn(type, budget, reward, fee, totalAvailable)
    /\ UNCHANGED <<scannerVars, race>>

\* the --txid argument: the newest transaction of the lineage or a stale one
Targets == {t \in {Len(ledger) - 1, Len(ledger)} : t >= 1}

DoClaim ==
    /\ \E target \in Targets, addr \in Addresses : Claim(target, addr)
    /\ UNCHANGED <<scannerVars, race>>

DoFund ==
    /\ \E target \in Targets, AMOUNT \in Amounts, FEE \in FundFees,
          totalAvailable \in FundFunds :
           Fund(target, AMOUNT, FEE, totalAvailable)
    /\ UNCHANGED <<scannerVars, race>>

DoSpend ==
    /\ Alive
    /\ UNCHANGED <<scannerVars, race>>
    /\ \/ \E pkh \in Pkhs :
             \E outputs \in ClaimProposals(Output0(Tip).script,
                                          Output0(Tip).value, pkh) :
                 Spend("claim", pkh, outputs)
       \/ \E outputs \in FundProposals(Output0(Tip).script,
                                       Output0(Tip).value) :
             Spend("fund", FunderPkh, outputs)

Next == DoSpawn \/ DoClaim \/ DoFund \/ DoSpend

Spec == Init /\ [][Next]_vars

\* the decoder alone, on encoded records and on other transactions
DoRoundTrip ==
    /\ \E r \in Records : RoundTrip(r)
    /\ UNCHANGED <<chainVars, lineageFile, walk>>

DoDecode ==
    /\ \E vout \in RawTxs : Decode(vout)
    /\ UNCHANGED <<chainVars, lineageFile, walk>>

CodecNext == DoRoundTrip \/ DoDecode

CodecSpec == Init /\ [][CodecNext]_vars

\* the walker beside the builders: node scanner.cjs --txid <spawn txid> is
\* run at any time after the spawn, and any of its ledger reads may fail
DoTrace ==
    /\ Spawned
    /\ \E failAt \in 0..Len(ledger), how \in {"404", "error"} :
           TraceLineage(ledger[1].id, Fails(failAt, how))
    /\ UNCHANGED <<chainVars, codec>>

WalkNext == DoSpawn \/ DoClaim \/ DoTrace

WalkSpec == Init /\ [][WalkNext]_vars

\* a trace during which one spent query fails
DoTraceSpent ==
    /\ Spawned
    /\ \E failAt \in 1..Len(ledger) :
           TraceLineage(ledger[1].id, Fails(failAt, "spent"))
    /\ UNCHANGED <<chainVars, codec>>

SpentNext == DoSpawn \/ DoClaim \/ DoTrace \/ DoTraceSpent

SpentSpec == Init /\ [][SpentNext]_vars

\* the walker on transactions that are no organism at all: --txid takes any
\* identifier, and the walk follows whoever spent output 0
DoPay ==
    /\ \E pkh \in Pkhs, value \in PayValues : Pay(pkh, value)
    /\ UNCHANGED <<result, reproductions, broadcasts, race, scannerVars>>

PayNext == DoPay \/ DoTrace

PaySpec == Init /\ [][PayNext]_vars

\* the walker on lineages that were fed: the contract of SCHEMA.md, which
\* declares `fund`, in place of the one under src/src/contracts
DoFed ==
    /\ \E target \in Targets, AMOUNT \in Amounts, FEE \in FundFees,
          totalAvailable \in FundFunds :
           Fed(target, AMOUNT, FEE, totalAvailable)
    /\ UNCHANGED <<scannerVars, race>>

\* the organisms that are fed: one that lives one generation unfed, one
\* that outlives the walk
FedBudgets == {4000, 50000}

DoSpawnFed ==
    /\ \E budget \in FedBudgets :
           Spawn(0, budget, 1000, 3000, budget + SPAWN_FEE)
    /\ UNCHANGED <<scannerVars, race>>

FedNext == DoSpawnFed \/ DoClaim \/ DoFed \/ DoTrace

FedSpec == Init /\ [][FedNext]_vars

\* the decoder on the transactions of the builders
DoDecodeBuilt ==
    /\ \E rest \in CodeRests : DecodeBuilt(rest)
    /\ UNCHANGED <<chainVars, lineageFile, walk>>

BuiltNext == DoSpawnFed \/ DoClaim \/ DoFund \/ DoDecodeBuilt

BuiltSpec == Init /\ [][BuiltNext]_vars

\* two claimers, or a claimer and a feeder, at the same time
DoRaceClaim ==
    /\ \E p \in Racers, target \in Targets, addr \in Addresses :
           RaceClaim(p, target, addr)
    /\ UNCHANGED scannerVars

DoRaceFund ==
    /\ \E p \in Racers, target \in Targets, AMOUNT \in Amounts,
          FEE \in FundFees, totalAvailable \in FundFunds :
           RaceFund(p, target, AMOUNT, FEE, totalAvailable)
    /\ UNCHANGED scannerVars

DoRaceBroadcast ==
    /\ \E p \in Racers : RaceBroadcast(p)
    /\ UNCHANGED scannerVars

RaceNext == DoSpawnFed \/ DoRaceClaim \/ DoRaceFund \/ DoRaceBroadcast

RaceSpec == Init /\ [][RaceNext]_vars


-----------------------------------------------------------------------------
(* Reading a built transaction *)

\* fields of an ORG1 annotation script: 00 6a 04 "ORG1" 01 <type> 04 <gen:4>
\* 20 <spawnTxid:32>
AnnSpecies(bytes) == bytes[9]

AnnGeneration(bytes) ==
    bytes[11] + 256 * bytes[12] + 65536 * bytes[13] + 16777216 * bytes[14]

AnnOrigin(bytes) == SubSeq(bytes, 16, 47)

IsAnnotation(out, species, gen, origin) ==
    /\ out.kind = "data"
    /\ out.value = 0
    /\ Len(out.bytes) = 47
    /\ SubSeq(out.bytes, 1, 8) = <<0, 106, 4, 79, 82, 71, 49, 1>>
    /\ out.bytes[10] = 4
    /\ out.bytes[15] = 32
    /\ AnnSpecies(out.bytes) = species
    /\ AnnGeneration(out.bytes) = gen
    /\ AnnOrigin(out.bytes) = origin

\* the last operation was a spend of the organism output through `claim`
\* that the covenant and the ledger took
Reproduced == result.op \in {"claim", "spend"} /\ result.status = "ok"

ConsumedNextBalance ==
    result.consumed.value - result.consumed.script.reward
        - result.consumed.script.fee

\* the annotation of a transaction of the lineage: the output after the
\* continuation, or the first output when there is no continuation
TxAnnotation(tx) ==
    IF tx.outputs[1].kind = "state" THEN tx.outputs[2] ELSE tx.outputs[1]

\* generation of the lineage: the covenant state of the unspent organism
\* output, or the generation announced by the transaction that ended it
LineageGeneration ==
    IF Alive THEN Output0(Tip).script.generation
    ELSE AnnGeneration(TxAnnotation(Tip).bytes)

FixedFields(script) ==
    <<script.organismType, script.reward, script.fee, script.dustLimit,
      script.spawnTxid>>

-----------------------------------------------------------------------------
(* C1: on the alive path (nextBalance = balance - reward - fee >= dustFloor) *)
(* a spend the covenant accepted has exactly three outputs, in order: the  *)
(* continuation with the same script, value nextBalance and generation+1;  *)
(* the zero-value annotation with generation+1 and unchanged species and   *)
(* lineageOrigin; the reward paying exactly `reward` to the claimer.       *)
C1_ReproduceAlive ==
    (Reproduced /\ ConsumedNextBalance >= result.consumed.script.dustLimit) =>
        LET c == result.consumed
            s == c.script
        IN /\ Len(result.built) = 3
           /\ result.built[1] =
                  [kind |-> "state",
                   script |-> [s EXCEPT !.generation = s.generation + 1],
                   value |-> c.value - s.reward - s.fee]
           /\ IsAnnotation(result.built[2], s.organismType, s.generation + 1,
                           s.spawnTxid)
           /\ result.built[3] =
                  [kind |-> "p2pkh", pkh |-> result.pkh, value |-> s.reward]
           /\ Tip.outputs = result.built

\* Scenario A: 100000 / 1000 / 3000 / 546 gives continuation 96000,
\* generation 1, reward 1000
C1_Witness ==
    /\ Reproduced
    /\ result.consumed.value = 100000
    /\ result.consumed.script.reward = 1000
    /\ result.consumed.script.fee = 3000
    /\ result.consumed.script.dustLimit = 546
    /\ result.built[1].kind = "state"
    /\ result.built[1].value = 96000
    /\ result.built[1].script.generation = 1
    /\ result.built[3].value = 1000

\* a spend accepted with nextBalance < dustFloor has no continuation output,
\* only the annotation with generation+1 and the reward, and leaves the
\* lineage dead at generation+1
C2_DeathShape ==
    (Reproduced /\ ConsumedNextBalance < result.consumed.script.dustLimit) =>
        LET s == result.consumed.script
        IN /\ Len(result.built) = 2
           /\ IsAnnotation(result.built[1], s.organismType, s.generation + 1,
                           s.spawnTxid)
           /\ result.built[2] =
                  [kind |-> "p2pkh", pkh |-> result.pkh, value |-> s.reward]
           /\ Dead
           /\ LineageGeneration = s.generation + 1

(* C2: death is terminal.  A spend accepted with nextBalance < dustFloor   *)
(* has no continuation output, only the annotation with generation+1 and   *)
(* the reward; the lineage is then dead at generation+1, and from a dead   *)
(* lineage no operation is accepted and the ledger never changes again.    *)
C2_DeathTerminal ==
    /\ []C2_DeathShape
    /\ [][Dead => (ledger' = ledger /\ Dead' /\ result'.status # "ok")]_vars

\* a reproduce was attempted on a dead lineage and refused
C2_Witness ==
    /\ Dead
    /\ LineageGeneration = 1
    /\ result.op = "claim"
    /\ result.status = "notOrganism"

(* C3: conservation.  For every accepted reproduce with nextBalance >= 0,  *)
(* alive or death path, consumedValue = continuation.value + reward + fee, *)
(* the continuation counting 0 when the organism dies; equivalently the    *)
(* implicit fee, consumed value minus the output values, equals `fee`.     *)
C3_Conservation ==
    (Reproduced /\ ConsumedNextBalance >= 0) =>
        LET s == result.consumed.script
            contValue == IF result.built[1].kind = "state"
                         THEN result.built[1].value ELSE 0
        IN /\ result.consumed.value = contValue + s.reward + s.fee
           /\ result.consumed.value - SumValues(result.built) = s.fee

(* C4: reproduce fails, with no transaction built and none submitted,      *)
(* whenever nextBalance = balance - reward - fee is negative.              *)
C4_InsufficientBalance ==
    (result.op = "claim" /\ result.consumed.kind = "state"
        /\ ConsumedNextBalance < 0) =>
        (result.status # "ok" /\ result.built = <<>>)

(* C5: the generation of the lineage equals the number of reproduce        *)
(* transitions accepted since spawn, and the continuation a feed builds    *)
(* carries the generation of the output it consumes.                       *)
C5_GenerationCount ==
    /\ Spawned => LineageGeneration = reproductions
    /\ (result.op = "fund" /\ result.built # <<>>) =>
           result.built[1].script.generation
               = result.consumed.script.generation

C5_Witness ==
    /\ Alive
    /\ reproductions = 2
    /\ result.op = "fund"
    /\ result.built # <<>>

(* C6: fixed fields are immutable.  The organism output of every           *)
(* transaction of the lineage carries the species, reward, fee, dust floor *)
(* and lineage origin fixed at spawn, and no accepted spend has a          *)
(* continuation whose fixed fields differ from those of the output it      *)
(* consumed.                                                               *)
C6_FixedFields ==
    /\ \A i \in 1..Len(ledger) :
           Output0(ledger[i]).kind = "state" =>
               FixedFields(Output0(ledger[i]).script)
                   = FixedFields(Output0(ledger[1]).script)
    /\ (result.status = "ok" /\ result.op # "spawn"
           /\ result.built[1].kind = "state") =>
           FixedFields(result.built[1].script)
               = FixedFields(result.consumed.script)

\* a spend whose continuation raises the reward was proposed and refused,
\* one generation into a lineage
C6_Witness ==
    /\ Alive
    /\ Len(ledger) = 2
    /\ result.op = "spend"
    /\ result.status = "covenant"
    /\ result.built[1].kind = "state"
    /\ result.built[1].script.reward # result.consumed.script.reward

(* C7: the all-zero lineage origin appears only at generation 0; every     *)
(* annotation and continuation at generation >= 1 carries the identifier   *)
(* of the spawn transaction.                                               *)
C7_OriginAdopted ==
    \A i \in 2..Len(ledger) :
        /\ AnnOrigin(TxAnnotation(ledger[i]).bytes) = ledger[1].id
        /\ Output0(ledger[i]).kind = "state" =>
               Output0(ledger[i]).script.spawnTxid = ledger[1].id

(* C8: with reward + fee > 0 no alive organism is left from which no       *)
(* ledger-valid reproduce can be performed.                                *)
C8_NoStuckAlive ==
    (Alive /\ Output0(Tip).script.reward + Output0(Tip).script.fee > 0) =>
        \E pkh \in Pkhs :
            \E outputs \in ClaimProposals(Output0(Tip).script,
                                          Output0(Tip).value, pkh) :
                /\ CovenantAccepts("claim", Output0(Tip).script,
                                   Output0(Tip).value, pkh, outputs)
                /\ LedgerValid(Output0(Tip).value, outputs)

(* C9: the transaction the feed builder assembles for an amount > 0 has a  *)
(* continuation with the script of the consumed output and value balance + *)
(* amount, then an annotation with the unchanged generation, and no reward *)
(* output: at most one further output, the funder's change.                *)
C9_FeedResult ==
    (result.op = "fund" /\ result.built # <<>> /\ result.amount > 0) =>
        LET c == result.consumed
        IN /\ result.built[1] =
                  [kind |-> "state", script |-> c.script,
                   value |-> c.value + result.amount]
           /\ IsAnnotation(result.built[2], c.script.organismType,
                           c.script.generation, c.script.spawnTxid)
           /\ Len(result.built) \in {2, 3}
           /\ Len(result.built) = 3 =>
                  /\ result.built[3].kind = "p2pkh"
                  /\ result.built[3].pkh = FunderPkh
                  /\ \E FEE \in FundFees :
                         result.built[3].value
                             = result.funds - result.amount - FEE

\* Scenario C: 50000 fed 20000 gives 70000
C9_Witness ==
    /\ result.op = "fund"
    /\ result.amount = 20000
    /\ result.consumed.kind = "state"
    /\ result.consumed.value = 50000
    /\ result.built # <<>>
    /\ result.built[1].value = 70000

(* C10: a feed with amount <= 0 fails at the argument check, before any    *)
(* transaction is built.                                                   *)
C10_InvalidAmount ==
    (result.op = "fund" /\ result.amount <= 0) =>
        (result.status = "usage" /\ result.built = <<>>)

C12_FeedAccepted ==
    (/\ result.method = "fund"
     /\ result.built # <<>>
     /\ result.built[1].kind = "state"
     /\ result.built[1].script = result.consumed.script
     /\ result.built[1].value > result.consumed.value
     /\ IsAnnotation(result.built[2], result.consumed.script.organismType,
                     result.consumed.script.generation,
                     result.consumed.script.spawnTxid)
     /\ \A i \in 3..Len(result.built) : result.built[i].pkh = FunderPkh)
        => result.status # "covenant"

(* C13: builder and verifier agree: for every organism output the outputs  *)
(* the reproduce builder assembles are, byte for byte and in order, the    *)
(* outputs the covenant requires, on the alive path and on the death path, *)
(* so the builder's transaction always satisfies the covenant.             *)
C13_BuilderVerifierAgree ==
    (result.op = "claim" /\ result.built # <<>>) =>
        /\ result.built = CovenantOutputs(result.consumed.script,
                                          result.consumed.value, result.pkh)
        /\ CovenantAccepts("claim", result.consumed.script,
                           result.consumed.value, result.pkh, result.built)

(* C14: a spawn that goes through produces Alive(0, initialBalance): its   *)
(* output 0 is the continuation holding exactly the requested budget at    *)
(* generation 0, its annotation has generation 0 and the all-zero lineage  *)
(* origin; a spawn whose funding is below budget + spawn fee is not        *)
(* submitted.                                                              *)
C14_Spawn ==
    result.op = "spawn" =>
        /\ result.funds < result.amount + SPAWN_FEE =>
               (result.status # "ok" /\ result.built = <<>> /\ ~Spawned)
        /\ result.status = "ok" =>
               /\ ledger = <<Tx(1, "spawn", result.built)>>
               /\ Alive
               /\ result.built[1].kind = "state"
               /\ result.built[1].value = result.amount
               /\ result.built[1].script.generation = 0
               /\ result.built[1].script.spawnTxid = zeroTxid
               /\ IsAnnotation(result.built[2],
                               result.built[1].script.organismType, 0,
                               zeroTxid)

\* Scenario A: budget 100000
C14_Witness ==
    /\ result.op = "spawn"
    /\ result.status = "ok"
    /\ result.amount = 100000
    /\ Output0(Tip).value = 100000

\* the kinds of the outputs of a transaction, in order
Kinds(outputs) == [i \in 1..Len(outputs) |-> outputs[i].kind]

\* the transaction the last operation built, when a builder built it
BuiltBy(op) == result.op = op /\ result.built # <<>>

\* an optional third output is a payment above the dust limit
ChangeAboveDust(outputs, dust) ==
    Len(outputs) = 3 => outputs[3].value > dust

(* C15 as stated: reproduce = [continuation?, annotation, reward], feed =   *)
(* [continuation, annotation, change?], spawn = [continuation,             *)
(* annotation]; a change output appears only on feed and only above dust.  *)
C15_LayoutSpawnNoChange ==
    /\ BuiltBy("claim") =>
           Kinds(result.built) \in {<<"state", "data", "p2pkh">>,
                                    <<"data", "p2pkh">>}
    /\ BuiltBy("fund") =>
           /\ Kinds(result.built) \in {<<"state", "data">>,
                                       <<"state", "data", "p2pkh">>}
           /\ ChangeAboveDust(result.built, FUND_DUST)
    /\ BuiltBy("spawn") => Kinds(result.built) = <<"state", "data">>

(* C15: every built transition has the layout reproduce = [continuation?,  *)
(* annotation, reward], feed = [continuation, annotation, change?], spawn  *)
(* = [continuation, annotation, change?]: position 0 is the continuation   *)
(* whenever there is one, and a change output appears only on feed and on  *)
(* spawn, and only when the change is above dust.                          *)
C15_Layout ==
    /\ BuiltBy("claim") =>
           Kinds(result.built) \in {<<"state", "data", "p2pkh">>,
                                    <<"data", "p2pkh">>}
    /\ BuiltBy("fund") =>
           /\ Kinds(result.built) \in {<<"state", "data">>,
                                       <<"state", "data", "p2pkh">>}
           /\ ChangeAboveDust(result.built, FUND_DUST)
    /\ BuiltBy("spawn") =>
           /\ Kinds(result.built) \in {<<"state", "data">>,
                                       <<"state", "data", "p2pkh">>}
           /\ ChangeAboveDust(result.built, DUST_LIMIT)
           /\ Len(result.built) = 3 =>
                  /\ result.built[3].pkh = FunderPkh
                  /\ result.built[3].value
                         = result.funds - result.amount - SPAWN_FEE

\* a spawn funded with 547 more than budget + spawn fee returns the 547
C15_Witness ==
    /\ BuiltBy("spawn")
    /\ result.status = "ok"
    /\ Len(result.built) = 3
    /\ result.built[3].value = 547

\* the bytes of the payload segments one after the other
RECURSIVE Flatten(_)
Flatten(segments) ==
    IF segments = <<>> THEN <<>>
    ELSE Head(segments) \o Flatten(Tail(segments))

(* C16 as stated: for every valid record r, also one with a non-empty      *)
(* payload, Decode(Encode(r)) is exactly r.                                *)
C16_RoundTripExact ==
    codec.op = "encode" =>
        codec.org1 = Org1(codec.record.type, codec.record.generation,
                          ToHex(codec.record.spawnTxid),
                          ToHex(Flatten(codec.record.payload)))

(* C16: for every valid record r, Decode(Encode(r)) returns the species,   *)
(* the generation and the lineage origin of r exactly, and as payload the  *)
(* bytes that follow the three fixed fields verbatim, which are the        *)
(* payload segments of r each behind its length byte; it is exactly r when *)
(* the payload of r is empty.                                              *)
C16_RoundTrip ==
    codec.op = "encode" =>
        /\ codec.org1 = Org1(codec.record.type, codec.record.generation,
                             ToHex(codec.record.spawnTxid),
                             ToHex(Pushes(codec.record.payload)))
        /\ codec.record.payload = <<>> => codec.org1.payload = <<>>

\* species 200 at generation 70000 of lineage 0101..01 with two segments
C16_Witness ==
    /\ codec.op = "encode"
    /\ codec.record = [type |-> 200, generation |-> 70000,
                       spawnTxid |-> TxidOf(1),
                       payload |-> <<<<1, 2>>, <<3>>>>]
    /\ codec.org1.kind = "org1"
    /\ codec.org1.generation = 70000
    /\ codec.org1.payload = <<0, 2, 0, 1, 0, 2, 0, 1, 0, 3>>

\* the positions at which the bytes of a script hold the protocol tag
TagAt(bytes) ==
    {j \in 1..(Len(bytes) - 3) : SubSeq(bytes, j, j + 3) = ORG1}

HasTag(vout) == \E i \in 1..Len(vout) : TagAt(vout[i]) # {}

\* the bytes behind the first tag of a script that holds one
AfterTag(bytes) ==
    LET j == CHOOSE j \in TagAt(bytes) : \A k \in TagAt(bytes) : j <= k
    IN SubSeq(bytes, j + 4, Len(bytes))

\* three length-prefixed pushes follow, none reading past the end
ThreePushes(after) ==
    /\ Len(after) >= 1
    /\ Len(after) >= 2 + after[1]
    /\ Len(after) >= 3 + after[1] + after[2 + after[1]]
    /\ Len(after) >= 3 + after[1] + after[2 + after[1]]
                       + after[3 + after[1] + after[2 + after[1]]]

\* the tag is there, and wherever it is the three pushes behind it are not
Malformed(vout) ==
    /\ HasTag(vout)
    /\ \A i \in 1..Len(vout) :
           TagAt(vout[i]) # {} => ~ThreePushes(AfterTag(vout[i]))

(* C17: Decode returns NotFound (null) exactly when no output of the       *)
(* transaction contains the 4-byte protocol tag.                           *)
C17_NotFoundIffNoTag ==
    codec.op # "none" => (codec.org1 = Null <=> ~HasTag(codec.vout))

(* C18: when the tag is present but a declared push length reads past the  *)
(* end or fewer than three pushes follow it, Decode fails: it returns      *)
(* neither NotFound nor a record built from truncated fields.              *)
C18_MalformedFails ==
    (codec.op # "none" /\ Malformed(codec.vout)) =>
        codec.org1.kind \notin {"null", "org1"}

\* the generations of a lineage count up from 0, one per entry
CountsUp(lineage) ==
    \A i \in 1..Len(lineage) : lineage[i].generation = i - 1

(* C19: in every trace the walker produces, walked from scratch or resumed *)
(* from a persisted trace, the first entry has generation 0 and each entry *)
(* has the generation of the one before it plus 1.                         *)
C19_MonotonicGeneration ==
    /\ CountsUp(lineageFile)
    /\ CountsUp(walk.lineage)

\* a walk resumed at generation 1 behind a cached entry, two hops long
C19_Witness ==
    /\ walk.status = "returned"
    /\ walk.startGen = 1
    /\ Len(walk.fetched) = 2
    /\ Len(lineageFile) = 3
    /\ lineageFile[3].generation = 2

(* C20: death is terminal in a trace: an entry with alive == false is the  *)
(* last entry of the trace; the walker appends nothing after it, in the    *)
(* same walk or in a later resumed walk.                                   *)
C20_DeathTerminalInTrace ==
    \A i \in 1..Len(lineageFile) :
        ~lineageFile[i].alive => i = Len(lineageFile)

\* the transaction of the ledger a trace entry was derived from
EntryTx(entry) == ledger[LedgerIndex(entry.txid)]

(* C21: the alive flag of a trace entry records whether its transaction    *)
(* produced a continuation: the entry of a reproduce without continuation  *)
(* output (balance 4000, reward 1000, fee 3000, dust 546) has alive ==     *)
(* false, an entry whose transaction has a continuation has alive == true. *)
C21_AliveIsContinuation ==
    \A i \in 1..Len(lineageFile) :
        lineageFile[i].alive
            <=> Output0(EntryTx(lineageFile[i])).kind = "state"

\* the transaction is what the covenant of the output it spends requires:
\* that output is an organism, and the outputs are those of `claim`
MatchesCovenant(prev, tx) ==
    /\ Output0(prev).kind = "state"
    /\ CovenantClaim(Output0(prev).script, Output0(prev).value,
                     GetRewardAddress(tx.outputs), tx.outputs)

(* C22: a covenant violation stops the trace: when the transaction that    *)
(* spends output 0 is not the result recomputed from the consumed record,  *)
(* the walker reports CovenantViolation and appends no entry for it or for *)
(* anything after it; every entry behind the first is a matching spend.    *)
C22_ViolationStopsTrace ==
    \A i \in 2..Len(lineageFile) :
        MatchesCovenant(EntryTx(lineageFile[i - 1]), EntryTx(lineageFile[i]))

\* fee and reward of each entry against the balance of the entry before it
FeesDerived(lineage) ==
    \A i \in 1..Len(lineage) :
        IF i = 1 THEN lineage[i].fee = 0 /\ lineage[i].reward = 0
        ELSE lineage[i].fee = lineage[i - 1].balance - lineage[i].balance
                                  - lineage[i].reward

(* C23: in a trace every entry with a prior entry has fee == prior         *)
(* balance - its balance - its reward, also after a resume; the            *)
(* generation-0 entry has fee == 0 and reward == 0.                        *)
C23_FeeDerivation ==
    /\ FeesDerived(lineageFile)
    /\ FeesDerived(walk.lineage)

\* Scenario A walked in two goes: 100000, then 96000 after a claim that
\* paid 1000, derived by the walk that resumed behind the spawn entry
C23_Witness ==
    /\ walk.status = "returned"
    /\ walk.startGen = 1
    /\ Len(lineageFile) >= 2
    /\ lineageFile[1].balance = 100000
    /\ lineageFile[2].balance = 96000
    /\ lineageFile[2].reward = 1000
    /\ lineageFile[2].fee = 3000

\* the last walk could not get a transaction from the ledger
Unresolved == walk.status # "none" /\ walk.unresolved # NoTxid

(* C24: when the ledger cannot produce the transaction at the current      *)
(* reference, the origin on an empty cache included, the trace ends in an  *)
(* outcome of its own, distinguishable from the normal stop at an unspent  *)
(* tip and from a dead lineage.                                            *)
C24_UnresolvedDistinct ==
    Unresolved =>
        ~(walk.status = "returned" /\ walk.summary \in {"ALIVE", "DEAD"})

\* the lineage has an entry for the transaction
HasEntry(lineage, txid) == \E j \in 1..Len(lineage) : lineage[j].txid = txid

\* a step that is a call of traceLineage in which a fetch was unresolvable
UnresolvedWalkStep ==
    /\ UNCHANGED <<chainVars, codec>>
    /\ walk'.status # "none"
    /\ walk'.unresolved # NoTxid

(* C25: the partial trace is preserved on failure: after a walk, fresh or  *)
(* resumed, in which a fetch was unresolvable, the persisted trace holds   *)
(* every entry of the previously persisted trace and every entry derived   *)
(* in this walk, and no entry for the transaction that could not be        *)
(* fetched.                                                                *)
C25_PartialTracePreserved ==
    [][UnresolvedWalkStep =>
          /\ \A i \in 1..Len(lineageFile) :
                 HasEntry(lineageFile', lineageFile[i].txid)
          /\ \A k \in 1..(Len(walk'.fetched) - 1) :
                 HasEntry(lineageFile', walk'.fetched[k])
          /\ ~HasEntry(lineageFile', walk'.unresolved)]_vars

\* a step that is a call of traceLineage
WalkStep == UNCHANGED <<chainVars, codec>> /\ walk'.status # "none"

\* the first entries of the longer lineage are the shorter lineage
StartsWith(longer, shorter) ==
    /\ Len(longer) >= Len(shorter)
    /\ SubSeq(longer, 1, Len(shorter)) = shorter

LastEntry(lineage) == lineage[Len(lineage)]

(* C26: resume with a known successor: when the last entry of the          *)
(* persisted trace has a spentBy, the walk starts at that successor with   *)
(* generation last.generation + 1, fetches no transaction that has a       *)
(* cached entry, and leaves every cached entry unchanged in the resulting  *)
(* trace.                                                                  *)
C26_ResumeKnownSuccessor ==
    [][(/\ WalkStep
        /\ lineageFile # <<>>
        /\ LastEntry(lineageFile).spentBy # NoTxid) =>
          /\ walk'.startGen = LastEntry(lineageFile).generation + 1
          /\ walk'.fetched # <<>>
          /\ walk'.fetched[1] = LastEntry(lineageFile).spentBy
          /\ \A k \in 1..Len(walk'.fetched) :
                 ~HasEntry(lineageFile, walk'.fetched[k])
          /\ StartsWith(lineageFile', lineageFile)
          /\ walk'.status = "returned" =>
                 StartsWith(walk'.lineage, lineageFile)]_vars

\* the walk resumed behind the two cached entries and added the third
C26_Witness ==
    /\ walk.status = "returned"
    /\ walk.mode = "resuming"
    /\ walk.startGen = 2
    /\ walk.fetched = <<ledger[3].id>>
    /\ Len(lineageFile) = 3

\* the entries of the lineage that were derived from the transaction
EntriesOf(lineage, txid) == {j \in 1..Len(lineage) : lineage[j].txid = txid}

(* C27: resume without a known successor: when the last entry of the       *)
(* persisted trace has no spentBy, that entry alone is dropped and, once   *)
(* its transaction is fetched, derived again from the same transaction at  *)
(* the same generation before the walk goes forward; it is the only        *)
(* transaction with a cached entry that is fetched, whatever the length of *)
(* the lineage, and the earlier cached entries are kept unchanged.         *)
C27_ResumeRecheck ==
    [][(/\ WalkStep
        /\ lineageFile # <<>>
        /\ LastEntry(lineageFile).spentBy = NoTxid) =>
          LET last == LastEntry(lineageFile)
              kept == SubSeq(lineageFile, 1, Len(lineageFile) - 1)
          IN /\ walk'.startGen = last.generation
             /\ walk'.fetched # <<>>
             /\ walk'.fetched[1] = last.txid
             /\ \A k \in 2..Len(walk'.fetched) :
                    ~HasEntry(lineageFile, walk'.fetched[k])
             /\ StartsWith(lineageFile', kept)
             /\ Cardinality(EntriesOf(lineageFile', last.txid)) <= 1
             /\ walk'.unresolved # last.txid =>
                    /\ Len(lineageFile') >= Len(lineageFile)
                    /\ lineageFile'[Len(lineageFile)].txid = last.txid
                    /\ lineageFile'[Len(lineageFile)].generation
                           = last.generation]_vars

\* the entry of generation 1 was derived again, then generation 2 walked
C27_Witness ==
    /\ Len(ledger) = 3
    /\ walk.status = "returned"
    /\ walk.mode = "re-checking"
    /\ walk.startGen = 1
    /\ walk.fetched = <<ledger[2].id, ledger[3].id>>
    /\ Len(lineageFile) = 3
    /\ lineageFile[2].spentBy = ledger[3].id

\* the walk was aborted by a fetch that rejected
AbortedWalkStep ==
    /\ WalkStep
    /\ walk'.status = "threw"
    /\ walk'.unresolved # NoTxid

(* C28: cancellation safety: when a walk is aborted between two of its     *)
(* steps, the persisted trace includes every entry the walk had already    *)
(* derived: each transaction it fetched before the one it stopped at has   *)
(* its entry in the lineage file.                                          *)
C28_AbortKeepsDerived ==
    [][AbortedWalkStep =>
          \A k \in 1..(Len(walk'.fetched) - 1) :
              HasEntry(lineageFile', walk'.fetched[k])]_vars

\* the invocations of spawn.cjs, claim.cjs and fund.cjs
Builders == {"spawn", "claim", "fund"}

(* C29: no automatic retry: an invocation of spawn, reproduce or feed      *)
(* hands at most one transaction to the ledger's submit operation, the one *)
(* it built; when the submission is rejected the invocation ends with the  *)
(* failure as its outcome and the ledger is as it was, and when it is      *)
(* accepted the ledger grew by exactly the transaction that was built.     *)
C29_NoRetry ==
    [][result'.op \in Builders =>
          /\ Len(broadcasts') <= 1
          /\ \A k \in 1..Len(broadcasts') : broadcasts'[k] = result'.built
          /\ result'.status = "broadcast" =>
                 /\ Len(broadcasts') = 1
                 /\ ledger' = ledger
          /\ result'.status # "ok" => ledger' = ledger
          /\ result'.status = "ok" =>
                 /\ Len(broadcasts') = 1
                 /\ Len(ledger') = Len(ledger) + 1
                 /\ SubSeq(ledger', 1, Len(ledger)) = ledger
                 /\ ledger'[Len(ledger')].outputs = result'.built]_vars

\* a reproduction was handed to the ledger once and rejected
C29_Witness ==
    /\ result.op = "claim"
    /\ result.status = "broadcast"
    /\ broadcasts = <<result.built>>
    /\ Alive

\* the figure reported for the organism output of ledger[i]: spawn.cjs
\* reports on the output it creates, fund.cjs on any later one
ReportedGenerations(i) ==
    LET out == Output0(ledger[i])
    IN IF i = 1 THEN MaxGens(out.value, out.script.reward, out.script.fee)
       ELSE GensLeft(out.value, out.script)

\* ledger[i + 1 .. j] are reproductions
OnlyClaims(i, j) == \A k \in (i + 1)..j : ledger[k].method = "claim"

(* C30: lifespan formula: from an organism output of value B >= dustLimit  *)
(* with reward + fee > 0, followed by reproductions only, the k-th         *)
(* reproduction produces a continuation exactly when                       *)
(* k <= floor((B - dustLimit) / (reward + fee)), and that quotient is the  *)
(* figure spawn and feed report as the generations possible.               *)
C30_Lifespan ==
    \A i \in 1..Len(ledger) :
        LET out == Output0(ledger[i])
        IN (/\ out.kind = "state"
            /\ out.value >= out.script.dustLimit
            /\ out.script.reward + out.script.fee > 0) =>
               /\ ReportedGenerations(i)
                      = (out.value - out.script.dustLimit)
                            \div (out.script.reward + out.script.fee)
               /\ \A j \in (i + 1)..Len(ledger) :
                      OnlyClaims(i, j) =>
                          (Output0(ledger[j]).kind = "state"
                               <=> j - i <= ReportedGenerations(i))

\* one generation was possible: the first reproduction continued the
\* organism, the second ended it
C30_Witness ==
    /\ Len(ledger) = 3
    /\ OnlyClaims(1, 3)
    /\ Output0(ledger[1]).script.reward + Output0(ledger[1]).script.fee > 0
    /\ ReportedGenerations(1) = 1
    /\ Output0(ledger[2]).kind = "state"
    /\ ReportedGenerations(2) = 0
    /\ Output0(ledger[3]).kind # "state"

\* consecutive entries are linked by spentBy, and alive says "no spentBy"
Linked(lineage) ==
    /\ \A i \in 1..(Len(lineage) - 1) :
           /\ lineage[i].spentBy # NoTxid
           /\ lineage[i].spentBy = lineage[i + 1].txid
    /\ \A i \in 1..Len(lineage) :
           lineage[i].alive <=> lineage[i].spentBy = NoTxid

\* the walk returned a lineage whose last entry has no spentBy
EndsUnspent ==
    /\ walk.status = "returned"
    /\ LastEntry(walk.lineage).spentBy = NoTxid

(* C31: trace chain linkage: after any walk, consecutive entries are       *)
(* linked (entries[i].spentBy = entries[i+1].txid), every entry but        *)
(* possibly the last has a spentBy, alive holds exactly of the entries     *)
(* without spentBy, and a last entry without spentBy is one whose output 0 *)
(* the ledger reported unspent when it was queried.                        *)
C31_ChainLinkage ==
    /\ Linked(lineageFile)
    /\ walk.status = "returned" => Linked(walk.lineage)
    /\ EndsUnspent => walk.spentQuery = "unspent"

\* the lineage a trace of the ledger as it is gives with no cache and every
\* read answered
FromScratch ==
    WalkLoop(<<>>, ledger[1].id, 0, <<>>, Fails(0, "404")).lineage

\* the walk got an answer to every read it made
EveryReadAnswered(w) ==
    /\ w.status = "returned"
    /\ w.unresolved = NoTxid
    /\ w.spentQuery = "unspent"

(* C32: resume equivalence: whatever trace an earlier walk over an earlier *)
(* state of the ledger persisted, a trace that starts from that cache and  *)
(* has its reads answered returns and persists the same entry sequence     *)
(* (generation, txid, balance, claimer, reward, fee, alive, spentBy) as a  *)
(* trace of the same ledger from scratch.                                  *)
C32_ResumeEquivalence ==
    [][(WalkStep /\ EveryReadAnswered(walk')) =>
          /\ walk'.lineage = FromScratch
          /\ lineageFile' = FromScratch]_vars

\* a trace resumed from two cached entries, the second checked again,
\* gave the three entries of the trace from scratch
C32_Witness ==
    /\ Len(ledger) = 3
    /\ EveryReadAnswered(walk)
    /\ walk.mode = "re-checking"
    /\ walk.startGen = 1
    /\ Len(walk.lineage) = 3
    /\ walk.lineage = FromScratch
    /\ lineageFile = FromScratch

(* C33: in every trace, also of a lineage that was fed, the generation of  *)
(* each entry equals the generation in the annotation of the entry's       *)
(* transaction and, where the transaction continues the organism, the      *)
(* generation in the covenant state of its continuation.                   *)
C33_EntryGenerationIsAnnotated ==
    \A i \in 1..Len(lineageFile) :
        LET tx == EntryTx(lineageFile[i])
        IN /\ lineageFile[i].generation
                  = AnnGeneration(TxAnnotation(tx).bytes)
           /\ Output0(tx).kind = "state" =>
                  lineageFile[i].generation = Output0(tx).script.generation

\* the annotation output of a built transaction
BuiltAnnotation(outputs) ==
    outputs[CHOOSE i \in 1..Len(outputs) : outputs[i].kind = "data"]

\* the decoder was run on the transaction the last builder assembled
DecodedBuilt ==
    /\ UNCHANGED chainVars
    /\ result.built # <<>>
    /\ codec'.op = "built"

(* C34: transaction-level decode: for every transaction the spawn,         *)
(* reproduce or feed builder assembles, output 0 being the covenant        *)
(* locking script with the tag constant in it when there is a              *)
(* continuation, decodeORG1 returns the species, generation and            *)
(* lineageOrigin of the annotation output.                                 *)
C34_DecodesAnnotation ==
    [][DecodedBuilt =>
          LET ann == BuiltAnnotation(result.built).bytes
          IN /\ codec'.org1.kind = "org1"
             /\ codec'.org1.type = AnnSpecies(ann)
             /\ codec'.org1.generation = AnnGeneration(ann)
             /\ codec'.org1.spawnTxid = ToHex(AnnOrigin(ann))]_vars

\* ledger[i] continues the organism at a generation after the spawn
ContinuedAt(i) ==
    /\ Output0(ledger[i]).kind = "state"
    /\ Output0(ledger[i]).script.generation >= 1

(* C35: every continuation a reproduce produces carries at least the dust  *)
(* limit and a feed only raises the value it finds, so the balance of an   *)
(* organism that is alive at generation >= 1 is never below its dust       *)
(* limit.                                                                  *)
C35_AliveAtLeastDust ==
    \A i \in 2..Len(ledger) :
        ContinuedAt(i) =>
            /\ Output0(ledger[i]).value >= Output0(ledger[i]).script.dustLimit
            /\ ledger[i].method = "claim" =>
                   Output0(ledger[i]).value
                       = CovenantNextBalance(Output0(ledger[i - 1]).script,
                                             Output0(ledger[i - 1]).value)
            /\ ledger[i].method = "fund" =>
                   Output0(ledger[i]).value > Output0(ledger[i - 1]).value

\* an organism alive at generation 1 with less than one more generation's
\* cost above the dust limit
C35_Witness ==
    /\ Len(ledger) = 2
    /\ ContinuedAt(2)
    /\ Output0(ledger[2]).value = 600
    /\ Output0(ledger[2]).script.dustLimit = DUST_LIMIT

\* the invocation got past its unspent check and built a transaction
PassedPrecheck(r) == r.built # <<>>

\* p and q ran against the same organism output and both got past the
\* unspent check
Raced(p, q) ==
    /\ p # q
    /\ race[p].target = race[q].target
    /\ PassedPrecheck(race[p])
    /\ PassedPrecheck(race[q])

(* C36: racing claimers: of two invocations that passed the unspent check  *)
(* on the same organism output at most one has its transaction accepted;   *)
(* the accepted transaction is the one successor of the output, one        *)
(* generation on; each invocation submits at most once, and the one that   *)
(* lost ends with the broadcast failure.                                   *)
C36_RacingClaimers ==
    \A p \in Racers :
        /\ race[p].sent <= 1
        /\ race[p].status = "ok" =>
               /\ race[p].target < Len(ledger)
               /\ ledger[race[p].target + 1].outputs = race[p].built
               /\ AnnGeneration(TxAnnotation(ledger[race[p].target + 1]).bytes)
                      = race[p].consumed.script.generation + 1
        /\ \A q \in Racers :
               (Raced(p, q) /\ race[p].status = "ok") =>
                   /\ race[q].status # "ok"
                   /\ race[q].pc = "done" =>
                          /\ race[q].status = "broadcast"
                          /\ race[q].sent = 1

\* both passed the check on the spawn output; one reproduced the organism,
\* the other's different transaction was refused
C36_Witness ==
    /\ Raced("r1", "r2")
    /\ race["r1"].target = 1
    /\ Len(ledger) = 2
    /\ race["r1"].status = "ok"
    /\ race["r2"].status = "broadcast"
    /\ race["r2"].sent = 1
    /\ race["r2"].built # race["r1"].built
    /\ ledger[2].outputs = race["r1"].built

====
